---- MODULE Spec2Model ----
(***************************************************************************)
(* Model of the gravity simulator: class Body of src/body.py driven by the *)
(* game loop of src/main.py (main.py carries its own copy of Body, which   *)
(* differs in combine's position rule; that rule is modelled as            *)
(* combine_position_main).                                                 *)
(*                                                                         *)
(* Python floats are modelled as exact rationals <<num, den>> (den > 0,    *)
(* lowest terms).  math.sqrt is exact on the inputs drawn here (all bodies *)
(* start on one line through the origin whose direction has rational       *)
(* coordinates, with velocities along it, so every distance is rational).  *)
(* The radius cbrt(3m / (4 pi density)) is rounded down to a multiple of   *)
(* 1/RadiusScale with pi taken as PiNum/PiDen.                             *)
(***************************************************************************)
EXTENDS Integers, Sequences, FiniteSets, TLC

(* ---------------- bounds of the model ---------------- *)
MaxBodies == 3
MaxMass == 2
MaxPos == 2
MaxSpeed == 1
MaxFramerate == 2
MaxTicks == 3
MaxTimestep == 2
MaxMagnitude == 100

(* ---------------- exact rational arithmetic ---------------- *)
Abs(n) == IF n < 0 THEN -n ELSE n

RECURSIVE GCD(_, _)
GCD(a, b) == IF b = 0 THEN a ELSE GCD(b, a % b)

Norm(n, d) ==
    LET g == GCD(Abs(n), Abs(d))
        s == IF d < 0 THEN -1 ELSE 1
    IN  <<(s * n) \div g, (s * d) \div g>>

R(n) == <<n, 1>>
Zero == R(0)

RAdd(a, b) ==
    LET g == GCD(a[2], b[2])
    IN  Norm(a[1] * (b[2] \div g) + b[1] * (a[2] \div g), (a[2] \div g) * b[2])
RNeg(a) == <<-a[1], a[2]>>
RSub(a, b) == RAdd(a, RNeg(b))
RMul(a, b) ==
    LET g1 == GCD(Abs(a[1]), b[2])
        g2 == GCD(Abs(b[1]), a[2])
    IN  IF a[1] = 0 \/ b[1] = 0 THEN Zero
        ELSE <<(a[1] \div g1) * (b[1] \div g2), (a[2] \div g2) * (b[2] \div g1)>>
RInv(a) == IF a[1] < 0 THEN <<-a[2], -a[1]>> ELSE <<a[2], a[1]>>
RDiv(a, b) == RMul(a, RInv(b))
RLe(a, b) == a[1] * b[2] <= b[1] * a[2]
RLt(a, b) == a[1] * b[2] < b[1] * a[2]

RECURSIVE RootSearch(_, _, _, _)
(* the largest r in lo..hi with r^k <= n, for k in {2, 3} *)
RootSearch(n, k, lo, hi) ==
    IF lo >= hi THEN lo
    ELSE LET mid == (lo + hi + 1) \div 2
             p == IF k = 2 THEN mid * mid ELSE mid * mid * mid
         IN  IF p <= n THEN RootSearch(n, k, mid, hi)
             ELSE RootSearch(n, k, lo, mid - 1)

Min(a, b) == IF a < b THEN a ELSE b
ISqrt(n) == RootSearch(n, 2, 0, Min(n, 46340))
ICbrt(n) == RootSearch(n, 3, 0, Min(n, 1290))

(* math.sqrt on a non-negative rational that is a perfect square *)
RSqrt(a) ==
    LET r == <<ISqrt(a[1]), ISqrt(a[2])>>
    IN  CHOOSE x \in {r} : x[1] * x[1] = a[1] /\ x[2] * x[2] = a[2]

(* ---------------- class Body ---------------- *)
density == 1
G == 1
RadiusScale == 100
Pi == <<22, 7>>

(* the direction of the line the bodies start on: a unit vector *)
Dir == << <<3, 5>>, <<4, 5>> >>

(* colours of the first bodies of preset_solar_system *)
Palette == << <<255, 255, 0>>, <<168, 168, 168>>, <<255, 228, 181>>, <<0, 0, 255>> >>

(* math.cbrt of a rational, rounded towards zero to a multiple of 1/RadiusScale *)
Cbrt(a) ==
    LET c == RadiusScale * RadiusScale * RadiusScale
        n == (Abs(a[1]) * c) \div a[2]
        r == ICbrt(n)
    IN  Norm(IF a[1] < 0 THEN -r ELSE r, RadiusScale)

_update_radius(b) ==
    [b EXCEPT !.radius =
        Cbrt(RDiv(RMul(R(3), b.mass), RMul(RMul(R(4), Pi), R(density))))]

_update_momentum(b) ==
    [b EXCEPT !.momentum_x = RMul(b.mass, b.velocity_x),
              !.momentum_y = RMul(b.mass, b.velocity_y)]

_reset_force(b) == [b EXCEPT !.force_x = Zero, !.force_y = Zero]

(* Body.__init__ *)
Body(mass, position_x, position_y, velocity_x, velocity_y, color) ==
    _update_momentum(_update_radius(
        [mass |-> mass,
         position_x |-> position_x, position_y |-> position_y,
         velocity_x |-> velocity_x, velocity_y |-> velocity_y,
         color |-> color,
         force_x |-> Zero, force_y |-> Zero,
         trail |-> <<>>,
         radius |-> Zero, momentum_x |-> Zero, momentum_y |-> Zero]))

(* d = math.sqrt(dx**2 + dy**2) *)
Distance(dx, dy) == RSqrt(RAdd(RMul(dx, dx), RMul(dy, dy)))

(* math.cos(math.atan2(dy, dx)) and math.sin(math.atan2(dy, dx)); atan2(0, 0) = 0 *)
CosAtan2(dy, dx, d) == IF d = Zero THEN R(1) ELSE RDiv(dx, d)
SinAtan2(dy, dx, d) == IF d = Zero THEN Zero ELSE RDiv(dy, d)

(* the test d <= self.radius + second_body.radius of _update_force *)
Overlap(self, second) ==
    LET dx == RSub(self.position_x, second.position_x)
        dy == RSub(self.position_y, second.position_y)
    IN  RLe(Distance(dx, dy), RAdd(self.radius, second.radius))

(* a combine that leaves self.mass as it was *)
combine_mass_kept(self, second) == self.mass

(* self.mass += second_body.mass *)
combine_mass(self, second) == RAdd(self.mass, second.mass)

(* combine's position rule in body.py; m is self.mass, already increased *)
combine_position(p1, p2, m, m2) ==
    RAdd(RMul(p1, RDiv(m, RAdd(m, m2))), RMul(p2, RDiv(m2, RAdd(m, m2))))

combine_color(c1, c2) == [n \in 1..3 |-> (c1[n] + c2[n]) \div 2]

(* Body.combine, without bodies.remove(second_body) *)
combine(self, second) ==
    LET b1 == _update_radius([self EXCEPT !.mass = combine_mass(self, second)])
        b2 == [b1 EXCEPT
                 !.position_x = combine_position(b1.position_x, second.position_x,
                                                 b1.mass, second.mass),
                 !.position_y = combine_position(b1.position_y, second.position_y,
                                                 b1.mass, second.mass)]
        b3 == [b2 EXCEPT !.momentum_x = RAdd(b2.momentum_x, second.momentum_x),
                         !.momentum_y = RAdd(b2.momentum_y, second.momentum_y)]
    IN  [b3 EXCEPT !.velocity_x = RDiv(b3.momentum_x, b3.mass),
                   !.velocity_y = RDiv(b3.momentum_y, b3.mass),
                   !.color = combine_color(b3.color, second.color),
                   !.trail = <<>>]

(* the force of _update_force's else branch *)
gravity(self, second, d) ==
    RNeg(RDiv(RMul(RMul(R(G), self.mass), second.mass), RMul(d, d)))

(* Body._update_force, without bodies.remove(second_body) *)
_update_force(self, second) ==
    LET dx == RSub(self.position_x, second.position_x)
        dy == RSub(self.position_y, second.position_y)
        d == Distance(dx, dy)
        hit == RLe(d, RAdd(self.radius, second.radius))
        force == IF hit THEN Zero ELSE gravity(self, second, d)
        b == IF hit THEN combine(self, second) ELSE self
    IN  [b EXCEPT !.force_x = RAdd(b.force_x, RMul(force, CosAtan2(dy, dx, d))),
                  !.force_y = RAdd(b.force_y, RMul(force, SinAtan2(dy, dx, d)))]

(* explicit Euler: the position advances by the velocity of before the step *)
update_position_explicit(b, dt) ==
    LET v == [b EXCEPT
                !.velocity_x = RAdd(b.velocity_x, RMul(RDiv(b.force_x, b.mass), R(dt))),
                !.velocity_y = RAdd(b.velocity_y, RMul(RDiv(b.force_y, b.mass), R(dt)))]
        p == [v EXCEPT
                !.position_x = RAdd(b.position_x, RMul(b.velocity_x, R(dt))),
                !.position_y = RAdd(b.position_y, RMul(b.velocity_y, R(dt)))]
    IN  _update_momentum(_reset_force(p))

(* an update_position that leaves the stored momentum as it was *)
update_position_stale(b, dt) ==
    LET v == [b EXCEPT
                !.velocity_x = RAdd(b.velocity_x, RMul(RDiv(b.force_x, b.mass), R(dt))),
                !.velocity_y = RAdd(b.velocity_y, RMul(RDiv(b.force_y, b.mass), R(dt)))]
        p == [v EXCEPT
                !.position_x = RAdd(v.position_x, RMul(v.velocity_x, R(dt))),
                !.position_y = RAdd(v.position_y, RMul(v.velocity_y, R(dt)))]
    IN  _reset_force(p)

(* Body.update_position *)
update_position(b, timestep) ==
    LET acceleration_x == RDiv(b.force_x, b.mass)
        acceleration_y == RDiv(b.force_y, b.mass)
        v == [b EXCEPT
                !.velocity_x = RAdd(b.velocity_x, RMul(acceleration_x, R(timestep))),
                !.velocity_y = RAdd(b.velocity_y, RMul(acceleration_y, R(timestep)))]
        p == [v EXCEPT
                !.position_x = RAdd(v.position_x, RMul(v.velocity_x, R(timestep))),
                !.position_y = RAdd(v.position_y, RMul(v.velocity_y, R(timestep)))]
    IN  _update_momentum(_reset_force(p))

(* Body.update_trail *)
update_trail(b, fps) ==
    LET trail_max == fps
        t == Append(b.trail, <<b.position_x, b.position_y>>)
    IN  [b EXCEPT !.trail = IF Len(t) > trail_max THEN Tail(t) ELSE t]

(* an update_force that does not skip self *)
is_partner_always(self, second) == TRUE

(* the test self != second_body of update_force *)
is_partner(self, second) == self # second

(* list.remove: drops the first element equal to x *)
Remove(s, x) ==
    LET at == CHOOSE n \in 1..Len(s) : s[n] = x /\ \A q \in 1..(n - 1) : s[q] # x
    IN  [n \in 1..(Len(s) - 1) |-> IF n < at THEN s[n] ELSE s[n + 1]]

(* ---------------- the game loop of main() ---------------- *)
VARIABLES
    body,       \* the Body objects, by identity; an object outlives its removal
    bodies,     \* the list `bodies`: a sequence of identities
    pc,         \* position in the loop body: "frame", "outer", "inner", "integrate"
    i,          \* elements consumed by the iterator of `for body in bodies` (force)
    j,          \* elements consumed by the iterator of `for second_body in bodies`
    k,          \* elements consumed by the iterator of `for body in bodies` (position)
    cur,        \* the object bound to `body` / `self` in the force loop
    framerate,  \* clock.get_fps() of this iteration
    timestep,   \* the timestep passed to update_position
    ticks,      \* completed iterations of the game loop
    initial,    \* history: the objects as constructed
    snap,       \* history: the objects and the list at the start of this iteration
    last,       \* history: the call made by the latest step, with what it was given
    removed,    \* history: the identities bodies.remove has taken out
    visits      \* history: the _update_force calls of this force pass

vars == <<body, bodies, pc, i, j, k, cur, framerate, timestep, ticks,
          initial, snap, last, removed, visits>>

None == [op |-> "none"]

InList(b) == \E n \in 1..Len(bodies) : bodies[n] = b

(* the preset: n bodies on the line Dir, constructed by Body.__init__ *)
Preset(n, m, a, u) ==
    [b \in 1..n |->
        Body(R(m[b]), RMul(R(a[b]), Dir[1]), RMul(R(a[b]), Dir[2]),
             RMul(R(u[b]), Dir[1]), RMul(R(u[b]), Dir[2]), Palette[b])]

Init ==
    /\ \E n \in 1..MaxBodies :
         \E m \in [1..n -> 1..MaxMass], a \in [1..n -> 0..MaxPos],
            u \in [1..n -> (-MaxSpeed)..MaxSpeed] :
            /\ body = Preset(n, m, a, u)
            /\ bodies = [b \in 1..n |-> b]
    /\ initial = body
    /\ snap = [body |-> body, bodies |-> bodies]
    /\ pc = "frame"
    /\ i = 0 /\ j = 0 /\ k = 0 /\ cur = 0
    /\ framerate = 0
    /\ timestep \in 1..MaxTimestep
    /\ ticks = 0
    /\ last = None
    /\ removed = {}
    /\ visits = <<>>

(* the numbers of the bodies in the list are small enough for one more iteration to
   be computed within the machine integers of the model checker *)
Small(q) == Abs(q[1]) <= MaxMagnitude /\ q[2] <= MaxMagnitude
Fits ==
    \A n \in 1..Len(bodies) :
        LET b == body[bodies[n]]
        IN  /\ Small(b.position_x) /\ Small(b.position_y)
            /\ Small(b.velocity_x) /\ Small(b.velocity_y)

(* top of the while loop: framerate = clock.get_fps(), then the force loop starts *)
Frame ==
    /\ pc = "frame"
    /\ ticks < MaxTicks
    /\ Fits
    /\ \E f \in 0..MaxFramerate : framerate' = f
    /\ pc' = "outer"
    /\ i' = 0
    /\ snap' = [body |-> body, bodies |-> bodies]
    /\ visits' = <<>>
    /\ last' = None
    /\ UNCHANGED <<body, bodies, j, k, cur, timestep, ticks, initial, removed>>

(* for body in bodies: body.update_force(bodies) -- the iterator yields *)
OuterNext ==
    /\ pc = "outer"
    /\ i < Len(bodies)
    /\ cur' = bodies[i + 1]
    /\ i' = i + 1
    /\ j' = 0
    /\ pc' = "inner"
    /\ last' = None
    /\ UNCHANGED <<body, bodies, k, framerate, timestep, ticks, initial, snap,
                   removed, visits>>

(* the iterator of the force loop is exhausted; the position loop starts *)
OuterDone ==
    /\ pc = "outer"
    /\ i >= Len(bodies)
    /\ pc' = "integrate"
    /\ k' = 0
    /\ last' = None
    /\ UNCHANGED <<body, bodies, i, j, cur, framerate, timestep, ticks, initial,
                   snap, removed, visits>>

(* for second_body in bodies: second_body is self, nothing is called *)
InnerSelf ==
    /\ pc = "inner"
    /\ j < Len(bodies)
    /\ ~is_partner(cur, bodies[j + 1])
    /\ j' = j + 1
    /\ last' = None
    /\ UNCHANGED <<body, bodies, pc, i, k, cur, framerate, timestep, ticks,
                   initial, snap, removed, visits>>

Call(op, self, second) ==
    [op |-> op, self |-> self, second |-> second,
     pre_self |-> body[self], pre_second |-> body[second],
     self_live |-> InList(self), second_live |-> InList(second),
     bodies |-> bodies, gone |-> removed]

Visit(self, second, merged) ==
    [self |-> self, second |-> second, merged |-> merged,
     force_x |-> RSub(body'[self].force_x, body[self].force_x),
     force_y |-> RSub(body'[self].force_y, body[self].force_y)]

(* self._update_force(second_body, bodies), else branch: gravity is accumulated *)
InnerForce ==
    /\ pc = "inner"
    /\ j < Len(bodies)
    /\ LET second == bodies[j + 1] IN
        /\ is_partner(cur, second)
        /\ ~Overlap(body[cur], body[second])
        /\ body' = [body EXCEPT ![cur] = _update_force(body[cur], body[second])]
        /\ last' = Call("force", cur, second)
        /\ visits' = Append(visits, Visit(cur, second, FALSE))
    /\ j' = j + 1
    /\ UNCHANGED <<bodies, pc, i, k, cur, framerate, timestep, ticks, initial,
                   snap, removed>>

(* self._update_force(second_body, bodies), if branch: self.combine(second_body,
   bodies), which ends in bodies.remove(second_body) *)
InnerCombine ==
    /\ pc = "inner"
    /\ j < Len(bodies)
    /\ LET second == bodies[j + 1] IN
        /\ is_partner(cur, second)
        /\ Overlap(body[cur], body[second])
        /\ body' = [body EXCEPT ![cur] = _update_force(body[cur], body[second])]
        /\ bodies' = Remove(bodies, second)
        /\ removed' = removed \cup {second}
        /\ last' = Call("combine", cur, second)
        /\ visits' = Append(visits, Visit(cur, second, TRUE))
    /\ j' = j + 1
    /\ UNCHANGED <<pc, i, k, cur, framerate, timestep, ticks, initial, snap>>

(* the iterator of update_force is exhausted: update_force returns *)
InnerDone ==
    /\ pc = "inner"
    /\ j >= Len(bodies)
    /\ pc' = "outer"
    /\ last' = None
    /\ UNCHANGED <<body, bodies, i, j, k, cur, framerate, timestep, ticks,
                   initial, snap, removed, visits>>

(* for body in bodies: body.update_position(timestep); body.update_trail(framerate) *)
IntegrateNext ==
    /\ pc = "integrate"
    /\ k < Len(bodies)
    /\ LET b == bodies[k + 1] IN
        /\ body' = [body EXCEPT
                      ![b] = update_trail(update_position(body[b], timestep), framerate)]
        /\ last' = Call("integrate", b, b)
    /\ k' = k + 1
    /\ UNCHANGED <<bodies, pc, i, j, cur, framerate, timestep, ticks, initial,
                   snap, removed, visits>>

(* the position loop is exhausted: clock.tick, and the while loop goes round *)
IntegrateDone ==
    /\ pc = "integrate"
    /\ k >= Len(bodies)
    /\ pc' = "frame"
    /\ ticks' = ticks + 1
    /\ last' = None
    /\ UNCHANGED <<body, bodies, i, j, k, cur, framerate, timestep, initial,
                   snap, removed, visits>>

Next ==
    \/ Frame
    \/ OuterNext
    \/ OuterDone
    \/ InnerSelf
    \/ InnerForce
    \/ InnerCombine
    \/ InnerDone
    \/ IntegrateNext
    \/ IntegrateDone

Spec == Init /\ [][Next]_vars

(* ---------------- the claims ---------------- *)
RECURSIVE SumOver(_, _, _)
(* the sum of f[l[n]] over the first `upto` elements of the list l *)
SumOver(f, l, upto) ==
    IF upto = 0 THEN Zero ELSE RAdd(f[l[upto]], SumOver(f, l, upto - 1))

Masses(o) == [b \in DOMAIN o |-> o[b].mass]
MassVelocityX(o) == [b \in DOMAIN o |-> RMul(o[b].mass, o[b].velocity_x)]
MassVelocityY(o) == [b \in DOMAIN o |-> RMul(o[b].mass, o[b].velocity_y)]
Everyone == [b \in DOMAIN initial |-> b]

TotalMass == SumOver(Masses(body), bodies, Len(bodies))
InitialMass == SumOver(Masses(initial), Everyone, Len(Everyone))
TotalMomentumX == SumOver(MassVelocityX(body), bodies, Len(bodies))
TotalMomentumY == SumOver(MassVelocityY(body), bodies, Len(bodies))
InitialMomentumX == SumOver(MassVelocityX(initial), Everyone, Len(Everyone))
InitialMomentumY == SumOver(MassVelocityY(initial), Everyone, Len(Everyone))

Merges == {n \in 1..Len(visits) : visits[n].merged}

(* C1: the masses of the bodies in the list always add up to the initial total, every
   body in the list has mass > 0, and a combine leaves the survivor with exactly
   m1 + m2 and takes exactly the absorbed body out of the list. *)
C1_MassConserved ==
    /\ TotalMass = InitialMass
    /\ \A n \in 1..Len(bodies) : RLt(Zero, body[bodies[n]].mass)
    /\ last.op = "combine" =>
         /\ body[last.self].mass = RAdd(last.pre_self.mass, last.pre_second.mass)
         /\ Len(bodies) = Len(last.bodies) - 1
         /\ bodies = SelectSeq(last.bodies, LAMBDA b : b # last.second)

(* two merges have happened and a later tick has completed *)
C1_Witness ==
    /\ pc = "frame"
    /\ ticks >= 2
    /\ Cardinality(removed) >= 2

(* C2: at the end of every tick the total momentum of the bodies in the list, the sum
   of mass * velocity in each component, is what it was initially. *)
C2_MomentumConserved ==
    pc = "frame" =>
        /\ TotalMomentumX = InitialMomentumX
        /\ TotalMomentumY = InitialMomentumY

(* C3: a combine puts the survivor at the mass-weighted barycenter of the two
   bodies as they were before it: (m1 + m2) * pos' = m1 * pos1 + m2 * pos2. *)
C3_Barycenter ==
    last.op = "combine" =>
        LET s == last.pre_self
            o == last.pre_second
            m == RAdd(s.mass, o.mass)
        IN  /\ RMul(m, body[last.self].position_x)
                 = RAdd(RMul(s.mass, s.position_x), RMul(o.mass, o.position_x))
            /\ RMul(m, body[last.self].position_y)
                 = RAdd(RMul(s.mass, s.position_y), RMul(o.mass, o.position_y))

(* C4: every body's stored momentum is its mass times its velocity, and a combine
   leaves the survivor with momentum m1*v1 + m2*v2 of the bodies as they were
   before it, and with velocity that momentum over m1 + m2. *)
C4_CombineMomentum ==
    /\ \A b \in DOMAIN body :
         /\ body[b].momentum_x = RMul(body[b].mass, body[b].velocity_x)
         /\ body[b].momentum_y = RMul(body[b].mass, body[b].velocity_y)
    /\ last.op = "combine" =>
         LET s == last.pre_self
             o == last.pre_second
             m == RAdd(s.mass, o.mass)
             px == RAdd(RMul(s.mass, s.velocity_x), RMul(o.mass, o.velocity_x))
             py == RAdd(RMul(s.mass, s.velocity_y), RMul(o.mass, o.velocity_y))
         IN  /\ body[last.self].momentum_x = px
             /\ body[last.self].momentum_y = py
             /\ body[last.self].velocity_x = RDiv(px, m)
             /\ body[last.self].velocity_y = RDiv(py, m)

(* a combine with a body that has already merged in this force pass, and whose
   result is moving *)
C4_Witness ==
    /\ last.op = "combine"
    /\ \E n \in Merges :
         /\ n < Len(visits)
         /\ visits[n].self \in {last.self, last.second}
    /\ body[last.self].momentum_x # Zero

(* C5: after update_trail(trail_max) the trail holds at most trail_max positions. *)
C5_TrailBound ==
    last.op = "integrate" => Len(body[last.self].trail) <= framerate

VisitsOf(a, b) == {n \in 1..Len(visits) : visits[n].self = a /\ visits[n].second = b}

(* C6: when the force pass ends, every two distinct bodies in the list have each
   run _update_force on the other exactly once in it, and the two contributions
   are equal and opposite. *)
C6_BothDirections ==
    (pc = "integrate" /\ k = 0) =>
        \A m, n \in 1..Len(bodies) :
            m # n =>
                LET a == bodies[m]
                    b == bodies[n]
                IN  /\ Cardinality(VisitsOf(a, b)) = 1
                    /\ Cardinality(VisitsOf(b, a)) = 1
                    /\ \A x \in VisitsOf(a, b), y \in VisitsOf(b, a) :
                         /\ visits[x].force_x = RNeg(visits[y].force_x)
                         /\ visits[x].force_y = RNeg(visits[y].force_y)

(* C7: update_position is semi-implicit Euler, it leaves the stored momentum equal
   to mass * velocity and the force zero; at the end of a tick every body in the
   list has zero force; a body that was alone in the list when the tick began
   moves by velocity * timestep and keeps its velocity. *)
C7_SemiImplicitEuler ==
    /\ last.op = "integrate" =>
         LET o == last.pre_self
             n == body[last.self]
             dt == R(timestep)
         IN  /\ n.velocity_x = RAdd(o.velocity_x, RMul(RDiv(o.force_x, o.mass), dt))
             /\ n.velocity_y = RAdd(o.velocity_y, RMul(RDiv(o.force_y, o.mass), dt))
             /\ n.position_x = RAdd(o.position_x, RMul(n.velocity_x, dt))
             /\ n.position_y = RAdd(o.position_y, RMul(n.velocity_y, dt))
             /\ n.momentum_x = RMul(n.mass, n.velocity_x)
             /\ n.momentum_y = RMul(n.mass, n.velocity_y)
             /\ n.force_x = Zero /\ n.force_y = Zero
             /\ Len(snap.bodies) = 1 =>
                  /\ n.velocity_x = o.velocity_x /\ n.velocity_y = o.velocity_y
                  /\ n.position_x = RAdd(o.position_x, RMul(o.velocity_x, dt))
                  /\ n.position_y = RAdd(o.position_y, RMul(o.velocity_y, dt))
    /\ pc = "frame" =>
         \A n \in 1..Len(bodies) :
            body[bodies[n]].force_x = Zero /\ body[bodies[n]].force_y = Zero

(* a moving body under a force has just been integrated with a timestep of 2 *)
C7_Witness ==
    /\ last.op = "integrate"
    /\ timestep = 2
    /\ last.pre_self.force_x # Zero
    /\ last.pre_self.velocity_x # Zero

(* C9: the force contributions of a tick are computed from the masses, positions
   and radii of the start of the tick, with the list as it was then: no combine
   has acted before a force contribution of the same tick is computed; and a
   position is integrated only after the force pass. *)
C9_ForceSeesSnapshot ==
    /\ last.op = "force" =>
         /\ last.bodies = snap.bodies
         /\ \A b \in {last.self, last.second} :
              /\ body[b].mass = snap.body[b].mass
              /\ body[b].radius = snap.body[b].radius
              /\ body[b].position_x = snap.body[b].position_x
              /\ body[b].position_y = snap.body[b].position_y
    /\ last.op = "integrate" => i >= Len(bodies)

(* C10: a body that bodies.remove has taken out is never again self or second_body
   of _update_force or combine, nor integrated; combine removes a body that is in
   the list; the body running update_force stays in the list. *)
C10_RemovedNeverUsed ==
    /\ last.op \in {"force", "combine"} =>
         /\ last.self \notin last.gone /\ last.second \notin last.gone
         /\ last.self_live /\ last.second_live
         /\ InList(last.self)
    /\ last.op = "integrate" => last.self \notin last.gone /\ last.self_live
    /\ pc = "inner" => InList(cur) /\ cur \notin removed
    /\ \A n \in 1..Len(bodies) : bodies[n] \notin removed

(* a body computes a force in a pass in which a body was removed before *)
C10_Witness ==
    /\ last.op = "force"
    /\ last.bodies # snap.bodies
    /\ last.gone # {}

(* ---------------- construction of the body list ---------------- *)
(* the preset builds its list: one more Body(...) is constructed and put in it *)
Construct ==
    /\ pc = "preset"
    /\ Len(bodies) < MaxBodies
    /\ \E m \in (-1)..MaxMass, a \in 0..MaxPos, u \in (-MaxSpeed)..MaxSpeed :
         LET b == Len(bodies) + 1
         IN  /\ body' = Append(body,
                    Body(R(m), RMul(R(a), Dir[1]), RMul(R(a), Dir[2]),
                         RMul(R(u), Dir[1]), RMul(R(u), Dir[2]), Palette[b]))
             /\ bodies' = Append(bodies, b)
    /\ initial' = body'
    /\ UNCHANGED <<pc, i, j, k, cur, framerate, timestep, ticks, snap, last,
                   removed, visits>>

InitCtor ==
    /\ body = <<>>
    /\ bodies = <<>>
    /\ initial = <<>>
    /\ snap = [body |-> <<>>, bodies |-> <<>>]
    /\ pc = "preset"
    /\ i = 0 /\ j = 0 /\ k = 0 /\ cur = 0
    /\ framerate = 0
    /\ timestep = 1
    /\ ticks = 0
    /\ last = None
    /\ removed = {}
    /\ visits = <<>>

NextCtor == Construct

SpecCtor == InitCtor /\ [][NextCtor]_vars

(* C8: no body with mass <= 0, and so none with radius <= 0, is ever in a list:
   the constructor rejects it. *)
C8_MassPositive ==
    \A n \in 1..Len(bodies) :
        /\ RLt(Zero, body[bodies[n]].mass)
        /\ RLt(Zero, body[bodies[n]].radius)

====
